---- MODULE Spec2Model ----
(***************************************************************************)
(* Model of extractor/oidc.go: the OIDC extractor of kuberos.              *)
(*                                                                         *)
(* NewOIDC assembles an extractor from a verifier and a list of options;   *)
(* Process exchanges an authorization code for a token set, takes the      *)
(* id_token out of it, has the verifier check it and decodes the verified  *)
(* token's claims into an OIDCAuthenticationParams record.                 *)
(*                                                                         *)
(* The OAuth2 provider (cfg.Exchange) and the verifier (o.v.Verify) are    *)
(* the environment: each answers a call with one of the outcomes its       *)
(* interface allows.  A call that was handed a cancelled context answers   *)
(* with the context's error.  idt.Claims is json.Unmarshal of the token's  *)
(* claim object into the record, driven by the record's json tags.         *)
(*                                                                         *)
(* Encoding: a Go error is a sequence of strings, outermost message first, *)
(* <<>> being nil; errors.Wrap prepends its message.  A pointer is a       *)
(* sequence of length at most one, <<>> being nil.                         *)
(***************************************************************************)
EXTENDS Integers, Sequences, FiniteSets, TLC

VARIABLES
    env,    \* which sets the run draws its inputs and the collaborators' answers from
    npc,    \* NewOIDC: "new" (not called), "loop" (in the option loop), "done" (returned)
    v,      \* NewOIDC: the verifier argument
    oo,     \* NewOIDC: the option arguments
    idx,    \* NewOIDC: position of the option loop in oo
    applied,\* NewOIDC: the options invoked so far, in order
    oe,     \* the oidcExtractor object: its fields v and h
    nret,   \* NewOIDC: the returned (OIDC, error) pair
    call    \* per Process call: its position, arguments, locals and returned pair

vars == <<env, npc, v, oo, idx, applied, oe, nret, call>>

-----------------------------------------------------------------------------
(* Bounds *)

\* Number of Process calls that may run concurrently on the one extractor.
NumCalls == 2
\* Longest option list handed to NewOIDC.
MaxOpts == 2
\* Largest number of members of an ID token's claim object.
MaxClaims == 2

Calls == 1..NumCalls

-----------------------------------------------------------------------------
(* Errors *)

NoError == <<>>

Wrap(err, msg) == <<msg>> \o err

ErrMissingIDToken == <<"response missing ID token">>

tokenFieldIDToken == "id_token"

\* Errors the collaborators answer with.
ErrCtx == <<"context canceled">>
ErrExchange == <<"oauth2: cannot fetch token">>
ErrVerify == <<"oidc: failed to verify signature">>
ErrOption == <<"option failed">>
ErrType == <<"json: cannot unmarshal into Go struct field of type string">>

-----------------------------------------------------------------------------
(* Values of dynamic type: token.Extra's interface{} and JSON claim values *)

Nothing == [kind |-> "nil", s |-> ""]
Str(s) == [kind |-> "string", s |-> s]
NotString == [kind |-> "other", s |-> ""]

\* x.(string): the comma-ok type assertion.
AssertStringMissing(x) == [ok |-> x.kind # "nil", s |-> x.s]
AssertString(x) == [ok |-> x.kind = "string", s |-> IF x.kind = "string" THEN x.s ELSE ""]

-----------------------------------------------------------------------------
(* OIDCAuthenticationParams and the decoding of claims into it *)

Fields == {"Username", "ClientID", "ClientSecret", "IDToken", "RefreshToken", "IssuerURL"}

\* The json tag of each field.
Tag(f) ==
    CASE f = "Username" -> "email"
      [] f = "ClientID" -> "clientID"
      [] f = "ClientSecret" -> "clientSecret"
      [] f = "IDToken" -> "idToken"
      [] f = "RefreshToken" -> "refreshToken"
      [] f = "IssuerURL" -> "issuer"

ZeroParams == [f \in Fields |-> ""]

\* Claim names an ID token of the model may carry: the six tags, a tag in
\* another letter case, and a standard claim that is no tag.
ClaimNames == {"email", "EMAIL", "clientID", "clientSecret", "idToken",
               "refreshToken", "issuer", "sub"}

\* Letter-case folding of the names above.
Fold(n) ==
    CASE n = "EMAIL" -> "email"
      [] n = "clientID" -> "clientid"
      [] n = "clientSecret" -> "clientsecret"
      [] n = "idToken" -> "idtoken"
      [] n = "refreshToken" -> "refreshtoken"
      [] OTHER -> n

\* The field a JSON object key decodes into (<<>> when none): json.Unmarshal
\* takes the field whose tag is the key, and failing that the field whose tag
\* equals the key under case folding.
FieldForExact(n) ==
    LET exact == {f \in Fields : Tag(f) = n}
    IN  IF exact # {} THEN <<CHOOSE f \in exact : TRUE>> ELSE <<>>
FieldFor(n) ==
    LET exact == {f \in Fields : Tag(f) = n}
        folded == {f \in Fields : Fold(Tag(f)) = Fold(n)}
    IN  IF exact # {} THEN <<CHOOSE f \in exact : TRUE>>
        ELSE IF folded # {} THEN <<CHOOSE f \in folded : TRUE>>
        ELSE <<>>

\* json.Unmarshal(claims, p): the members of the claim object in document
\* order.  A string is stored into the member's field, null leaves the field
\* alone, a value of another type is a type error (decoding goes on and the
\* first error is returned), a key without a field is skipped.
RECURSIVE Unmarshal(_, _)
Unmarshal(claims, p) ==
    IF claims = <<>> THEN [p |-> p, err |-> NoError]
    ELSE LET m == Head(claims)
             f == FieldFor(m.name)
             q == IF f # <<>> /\ m.value.kind = "string"
                  THEN [p EXCEPT ![f[1]] = m.value.s] ELSE p
             rest == Unmarshal(Tail(claims), q)
         IN  IF f # <<>> /\ m.value.kind = "other"
             THEN [p |-> rest.p, err |-> ErrType]
             ELSE rest

\* The composite literal of Process.
NewParams(cfg, id, token, idt) ==
    [ZeroParams EXCEPT !["ClientID"] = cfg.ClientID,
                       !["ClientSecret"] = cfg.ClientSecret,
                       !["IDToken"] = id,
                       !["RefreshToken"] = token.refresh,
                       !["IssuerURL"] = idt.issuer]

\* The last statements of Process: the pair returned after idt.Claims.
ClaimsReturnPartial(p, err) ==
    [result |-> <<p>>,
     err |-> IF err # NoError THEN Wrap(err, "cannot extract claims from ID token")
             ELSE NoError]
ClaimsReturn(p, err) ==
    IF err # NoError
    THEN [result |-> <<>>, err |-> Wrap(err, "cannot extract claims from ID token")]
    ELSE [result |-> <<p>>, err |-> NoError]

-----------------------------------------------------------------------------
(* HTTP clients and contexts *)

DefaultClient == "http.DefaultClient"
NoClient == "none"

\* A context: the callers' contexts it descends from (none for
\* context.Background) and the HTTP client it carries.

\* oidc.ClientContext(ctx, h): ctx's child carrying h.
ClientContextDetached(ctx, h) == [from |-> {}, client |-> h]
ClientContext(ctx, h) == [from |-> ctx.from, client |-> h]

\* Whether a context is done: its caller's context was cancelled or timed out.
Cancelled(ctx) == \E c \in ctx.from : call[c].cancelled

-----------------------------------------------------------------------------
(* Options *)

\* HTTPClient(h) applied to extractor o.
HTTPClient(h, o) == [o |-> [o EXCEPT !.h = h], err |-> NoError]

\* An Option is a func(*oidcExtractor) error.  Besides HTTPClient(h) the
\* model has an option a caller wrote that returns an error; it cannot touch
\* the extractor's unexported fields.
OptHTTPClient(h) == [kind |-> "HTTPClient", h |-> h]
OptFailing == [kind |-> "failing", h |-> NoClient]

Option(opt, o) ==
    IF opt.kind = "HTTPClient" THEN HTTPClient(opt.h, o)
    ELSE [o |-> o, err |-> ErrOption]

-----------------------------------------------------------------------------
(* The inputs of a run *)

SeqsUpTo(S, n) == UNION {[1..k -> S] : k \in 0..n}

Configs == {[ClientID |-> "abc", ClientSecret |-> "xyz"],
            [ClientID |-> "def", ClientSecret |-> "uvw"]}

Codes == {"auth-code-1"}

Verifiers == {"verifier1", "verifier2"}

Options == {OptHTTPClient("h1"), OptHTTPClient("h2"), OptFailing}

\* A token set as cfg.Exchange returns it: what Extra("id_token") yields and
\* the RefreshToken field.
ZeroToken == [extra |-> Nothing, refresh |-> ""]
\* token.Extra(key)
Extra(token, key) == IF key = tokenFieldIDToken THEN token.extra ELSE Nothing
Tokens == [extra : {Nothing, Str("jwt1"), Str("jwt2"), NotString}, refresh : {"", "r1"}]

Issuers == {"https://issuer.example"}

ClaimValues == {Str("a"), Str("b"), Nothing, NotString}
Members == [name : ClaimNames, value : ClaimValues]
Member(n, x) == [name |-> n, value |-> x]

\* Every claim object of at most MaxClaims members.
AllPayloads == SeqsUpTo(Members, MaxClaims)

\* A few claim objects: none, an email, an email under another letter case,
\* a claim named like the IDToken field's tag, a claim that is no tag.
SomePayloads == {<<>>,
                 <<Member("email", Str("a"))>>,
                 <<Member("EMAIL", Str("b"))>>,
                 <<Member("idToken", Str("b"))>>,
                 <<Member("sub", Str("a"))>>}

\* A verified token: idt.Issuer and the claim object idt.Claims decodes.
ZeroIDToken == [issuer |-> "", claims |-> <<>>]

\* One call, every option list, every token set, a few claim objects.
EnvOne ==
    [calls |-> {1}, cfgs |-> Configs, ctxClients |-> {NoClient, "h1"},
     optSeqs |-> SeqsUpTo(Options, MaxOpts), verifiers |-> Verifiers,
     tokens |-> Tokens, payloads |-> SomePayloads]

\* One call, every claim object.
EnvClaims ==
    [calls |-> {1}, cfgs |-> Configs, ctxClients |-> {NoClient},
     optSeqs |-> {<<>>, <<OptFailing>>}, verifiers |-> {"verifier1"},
     tokens |-> {[extra |-> Str("jwt1"), refresh |-> "r1"]},
     payloads |-> AllPayloads]

\* NumCalls concurrent calls, a few answers each.
EnvConcurrent ==
    [calls |-> Calls, cfgs |-> Configs, ctxClients |-> {NoClient},
     optSeqs |-> {<<OptHTTPClient("h1")>>, <<OptFailing>>}, verifiers |-> {"verifier1"},
     tokens |-> {[extra |-> Nothing, refresh |-> "r1"], [extra |-> Str("jwt1"), refresh |-> "r1"]},
     payloads |-> {<<Member("email", Str("a"))>>, <<Member("email", NotString)>>}]

-----------------------------------------------------------------------------
(* State *)

ZeroExtractor == [v |-> "", h |-> ""]
ZeroContext == [from |-> {}, client |-> NoClient]
NoReturn == [result |-> <<>>, err |-> NoError]

\* A Process call before it is made.
ZeroCall ==
    [pc |-> "idle",             \* idle, exchange, extract, verify, populate, claims, done
     cancelled |-> FALSE,       \* the caller's context is done
     ctx |-> ZeroContext, cfg |-> [ClientID |-> "", ClientSecret |-> ""], code |-> "",
     octx |-> ZeroContext,
     token |-> ZeroToken, exErr |-> NoError,
     id |-> "", ok |-> FALSE,
     idt |-> ZeroIDToken, vErr |-> NoError,
     params |-> <<>>, cErr |-> NoError,
     ret |-> NoReturn,
     exchanges |-> 0,           \* calls of cfg.Exchange
     exchCtx |-> ZeroContext,   \* the context cfg.Exchange was given
     verifies |-> 0,            \* calls of o.v.Verify
     verCtx |-> ZeroContext,    \* the context o.v.Verify was given
     verifiedBy |-> "",         \* the verifier whose Verify was called
     accepted |-> <<>>]         \* the raw tokens the verifier accepted

\* The input sets of the run.
In ==
    CASE env = "one" -> EnvOne
      [] env = "claims" -> EnvClaims
      [] env = "concurrent" -> EnvConcurrent

InitWith(e) ==
    /\ env = e
    /\ npc = "new"
    /\ v = ""
    /\ oo = <<>>
    /\ idx = 0
    /\ applied = <<>>
    /\ oe = ZeroExtractor
    /\ nret = [ext |-> <<>>, err |-> NoError]
    /\ call = [c \in Calls |-> ZeroCall]

Init == InitWith("one")
InitClaims == InitWith("claims")
InitConcurrent == InitWith("concurrent")

-----------------------------------------------------------------------------
(* NewOIDC *)

\* oe := &oidcExtractor{v: v, h: http.DefaultClient}
NewOIDC(ver, opts) ==
    /\ npc = "new"
    /\ v' = ver
    /\ oo' = opts
    /\ oe' = [v |-> ver, h |-> DefaultClient]
    /\ idx' = 1
    /\ npc' = "loop"
    /\ UNCHANGED <<env, applied, nret, call>>

\* What one turn of the option loop leaves: the extractor, whether NewOIDC
\* returns, and the pair it returns.
LoopBodyKeepGoing(opt, o) ==
    LET r == Option(opt, o)
    IN  [o |-> r.o, returns |-> FALSE, ret |-> [ext |-> <<>>, err |-> NoError]]
LoopBody(opt, o) ==
    LET r == Option(opt, o)
    IN  IF r.err # NoError
        THEN [o |-> r.o, returns |-> TRUE,
              ret |-> [ext |-> <<>>, err |-> Wrap(r.err, "cannot apply OIDC option")]]
        ELSE [o |-> r.o, returns |-> FALSE, ret |-> [ext |-> <<>>, err |-> NoError]]

\* for _, o := range oo { if err := o(oe); err != nil { return nil, ... } }
ApplyOption ==
    /\ npc = "loop"
    /\ idx <= Len(oo)
    /\ LET b == LoopBody(oo[idx], oe)
       IN  /\ oe' = b.o
           /\ applied' = Append(applied, oo[idx])
           /\ IF b.returns
              THEN /\ nret' = b.ret
                   /\ npc' = "done"
                   /\ idx' = idx
              ELSE /\ idx' = idx + 1
                   /\ UNCHANGED <<nret, npc>>
    /\ UNCHANGED <<env, v, oo, call>>

\* return oe, nil
NewOIDCReturn ==
    /\ npc = "loop"
    /\ idx > Len(oo)
    /\ nret' = [ext |-> <<"oe">>, err |-> NoError]
    /\ npc' = "done"
    /\ UNCHANGED <<env, v, oo, idx, applied, oe, call>>

\* The extractor NewOIDC handed out.
Constructed == npc = "done" /\ nret.ext # <<>>

-----------------------------------------------------------------------------
(* Process *)

\* return r, err
Return(k, r, err) == [k EXCEPT !.pc = "done", !.ret = [result |-> r, err |-> err]]

\* octx := oidc.ClientContext(ctx, o.h); cfg.Exchange(octx, code) is called.
Enter(k, o, ctx, cfg, code) ==
    LET octx == ClientContext(ctx, o.h)
    IN  [k EXCEPT !.pc = "exchange", !.ctx = ctx, !.cfg = cfg, !.code = code,
                  !.octx = octx, !.exchanges = @ + 1, !.exchCtx = octx]

\* token, err := cfg.Exchange(octx, code); if err != nil { return nil, Wrap }
AfterExchangeRetry(k, ans) ==
    IF ans.err # NoError
    THEN IF k.exchanges < 2
         THEN [k EXCEPT !.exchanges = @ + 1]
         ELSE Return([k EXCEPT !.exErr = ans.err], <<>>,
                     Wrap(ans.err, "cannot exchange code for token"))
    ELSE [k EXCEPT !.token = ans.token, !.pc = "extract"]
AfterExchange(k, ans) ==
    IF ans.err # NoError
    THEN Return([k EXCEPT !.exErr = ans.err], <<>>,
                Wrap(ans.err, "cannot exchange code for token"))
    ELSE [k EXCEPT !.token = ans.token, !.pc = "extract"]

\* id, ok := token.Extra("id_token").(string); if !ok { return nil,
\* ErrMissingIDToken }; o.v.Verify(ctx, id) is called.
Extract(k, o) ==
    LET a == AssertString(Extra(k.token, tokenFieldIDToken))
    IN  IF ~a.ok THEN Return(k, <<>>, ErrMissingIDToken)
        ELSE [k EXCEPT !.id = a.s, !.ok = TRUE, !.pc = "verify",
                       !.verifies = @ + 1, !.verCtx = k.ctx, !.verifiedBy = o.v]

\* idt, err := o.v.Verify(ctx, id); if err != nil { return nil, Wrap }
AfterVerify(k, ans) ==
    IF ans.err # NoError
    THEN Return([k EXCEPT !.vErr = ans.err], <<>>, Wrap(ans.err, "cannot verify ID token"))
    ELSE [k EXCEPT !.idt = ans.idt, !.accepted = Append(@, k.id), !.pc = "populate"]

\* params := &OIDCAuthenticationParams{...}
PopulateShared(k) ==
    [k EXCEPT !.params = <<NewParams(call[1].cfg, k.id, k.token, k.idt)>>, !.pc = "claims"]
Populate(k) ==
    [k EXCEPT !.params = <<NewParams(k.cfg, k.id, k.token, k.idt)>>, !.pc = "claims"]

\* if err := idt.Claims(params); err != nil { return nil, Wrap }; return params, nil
Claims(k) ==
    LET r == Unmarshal(k.idt.claims, k.params[1])
        out == ClaimsReturn(r.p, r.err)
    IN  Return([k EXCEPT !.params = <<r.p>>, !.cErr = r.err], out.result, out.err)

\* The answers of cfg.Exchange to a call under context x.
ExchangeAnswers(x) ==
    IF Cancelled(x) THEN {[err |-> ErrCtx, token |-> ZeroToken]}
    ELSE {[err |-> ErrExchange, token |-> ZeroToken]}
         \cup {[err |-> NoError, token |-> t] : t \in In.tokens}

\* The answers of o.v.Verify to a call under context x.
VerifyAnswers(x) ==
    IF Cancelled(x) THEN {[err |-> ErrCtx, idt |-> ZeroIDToken]}
    ELSE {[err |-> ErrVerify, idt |-> ZeroIDToken]}
         \cup {[err |-> NoError, idt |-> [issuer |-> i, claims |-> p]] :
                 i \in Issuers, p \in In.payloads}

ProcessCall(c) ==
    /\ Constructed
    /\ c \in In.calls
    /\ call[c].pc = "idle"
    /\ \E cfg \in In.cfgs, code \in Codes, cl \in In.ctxClients :
         call' = [call EXCEPT ![c] = Enter(@, oe, [from |-> {c}, client |-> cl], cfg, code)]
    /\ UNCHANGED <<env, npc, v, oo, idx, applied, oe, nret>>

ExchangeReturn(c) ==
    /\ call[c].pc = "exchange"
    /\ \E ans \in ExchangeAnswers(call[c].exchCtx) :
         call' = [call EXCEPT ![c] = AfterExchange(@, ans)]
    /\ UNCHANGED <<env, npc, v, oo, idx, applied, oe, nret>>

ExtractIDToken(c) ==
    /\ call[c].pc = "extract"
    /\ call' = [call EXCEPT ![c] = Extract(@, oe)]
    /\ UNCHANGED <<env, npc, v, oo, idx, applied, oe, nret>>

VerifyReturn(c) ==
    /\ call[c].pc = "verify"
    /\ \E ans \in VerifyAnswers(call[c].verCtx) :
         call' = [call EXCEPT ![c] = AfterVerify(@, ans)]
    /\ UNCHANGED <<env, npc, v, oo, idx, applied, oe, nret>>

PopulateParams(c) ==
    /\ call[c].pc = "populate"
    /\ call' = [call EXCEPT ![c] = Populate(@)]
    /\ UNCHANGED <<env, npc, v, oo, idx, applied, oe, nret>>

DecodeClaims(c) ==
    /\ call[c].pc = "claims"
    /\ call' = [call EXCEPT ![c] = Claims(@)]
    /\ UNCHANGED <<env, npc, v, oo, idx, applied, oe, nret>>

\* The caller cancels the context of a call in progress, or its deadline passes.
Cancel(c) ==
    /\ call[c].pc \notin {"idle", "done"}
    /\ ~call[c].cancelled
    /\ call' = [call EXCEPT ![c].cancelled = TRUE]
    /\ UNCHANGED <<env, npc, v, oo, idx, applied, oe, nret>>

-----------------------------------------------------------------------------
(* Specifications *)

Next ==
    \/ \E ver \in In.verifiers, opts \in In.optSeqs : NewOIDC(ver, opts)
    \/ ApplyOption
    \/ NewOIDCReturn
    \/ \E c \in Calls : ProcessCall(c)
    \/ \E c \in Calls : ExchangeReturn(c)
    \/ \E c \in Calls : ExtractIDToken(c)
    \/ \E c \in Calls : VerifyReturn(c)
    \/ \E c \in Calls : PopulateParams(c)
    \/ \E c \in Calls : DecodeClaims(c)
    \/ \E c \in Calls : Cancel(c)

Spec == Init /\ [][Next]_vars
SpecClaims == InitClaims /\ [][Next]_vars
SpecConcurrent == InitConcurrent /\ [][Next]_vars

\* Every call in progress goes on: the goroutine running Process is
\* scheduled, and the provider and the verifier answer.
Fairness ==
    \A c \in Calls :
        /\ WF_vars(ExchangeReturn(c))
        /\ WF_vars(ExtractIDToken(c))
        /\ WF_vars(VerifyReturn(c))
        /\ WF_vars(PopulateParams(c))
        /\ WF_vars(DecodeClaims(c))

LiveSpec == Init /\ [][Next]_vars /\ Fairness

-----------------------------------------------------------------------------
(* Properties *)

Max(S) == CHOOSE x \in S : \A y \in S : y <= x
Min(S) == CHOOSE x \in S : \A y \in S : x <= y

Returned(k) == k.pc = "done"
Succeeded(k) == k.pc = "done" /\ k.ret.err = NoError /\ k.ret.result # <<>>
\* cfg.Exchange answered with a token set.
Exchanged(k) == k.pc \notin {"idle", "exchange"} /\ k.exErr = NoError
\* o.v.Verify answered with a verified token.
Verified(k) == k.accepted # <<>>

\* C1: whenever the exchange answers with a token set whose id_token is a
\* string and the verifier accepts it, Process returns a nil error and a
\* record whose ClientID and ClientSecret are the config's, whose IDToken is
\* the raw id_token, whose RefreshToken is the token set's and whose IssuerURL
\* is the verified token's issuer, whatever claims the token carries.
C1_EchoesConfigAndToken ==
    \A c \in Calls :
        LET k == call[c]
        IN  (Returned(k) /\ Exchanged(k) /\ k.token.extra.kind = "string" /\ Verified(k))
            => /\ k.ret.err = NoError
               /\ k.ret.result # <<>>
               /\ k.ret.result[1]["ClientID"] = k.cfg.ClientID
               /\ k.ret.result[1]["ClientSecret"] = k.cfg.ClientSecret
               /\ k.ret.result[1]["IDToken"] = k.token.extra.s
               /\ k.ret.result[1]["RefreshToken"] = k.token.refresh
               /\ k.ret.result[1]["IssuerURL"] = k.idt.issuer

\* C2: whenever the exchange answers with a token set whose id_token is
\* absent or not a string, the verifier is not called and Process returns
\* exactly ErrMissingIDToken with a nil result, whatever else the token set
\* carries.
C2_MissingIDToken ==
    \A c \in Calls :
        LET k == call[c]
        IN  (Exchanged(k) /\ k.token.extra.kind # "string")
            => /\ k.pc \in {"extract", "done"}
               /\ k.verifies = 0
               /\ Returned(k) => k.ret = [result |-> <<>>, err |-> ErrMissingIDToken]

C2_Witness ==
    \E c \in Calls :
        /\ Returned(call[c])
        /\ Exchanged(call[c])
        /\ call[c].token = [extra |-> Nothing, refresh |-> "r1"]
        /\ call[c].ret.err = ErrMissingIDToken

\* C3: a call whose verification fails returns the verifier's error wrapped
\* with "cannot verify ID token" and a nil result; no call returns a record
\* whose IDToken the verifier did not accept in that call; the verifier is
\* called at most once per call.
C3_OnlyVerifiedTokens ==
    \A c \in Calls :
        LET k == call[c]
        IN  Returned(k)
            => /\ k.vErr # NoError
                  => k.ret = [result |-> <<>>, err |-> Wrap(k.vErr, "cannot verify ID token")]
               /\ k.ret.result # <<>>
                  => \E i \in DOMAIN k.accepted : k.accepted[i] = k.ret.result[1]["IDToken"]
               /\ k.verifies <= 1

\* C4: a call whose exchange fails returns the exchange's error wrapped with
\* "cannot exchange code for token" and a nil result, after exactly one
\* exchange, without extracting an ID token and without calling the verifier.
C4_ExchangeFailure ==
    \A c \in Calls :
        LET k == call[c]
        IN  (k.exErr # NoError \/ k.exchanges > 1)
            => /\ Returned(k)
               /\ k.ret = [result |-> <<>>, err |-> Wrap(k.exErr, "cannot exchange code for token")]
               /\ k.exchanges = 1
               /\ ~k.ok /\ k.id = ""
               /\ k.verifies = 0

C4_Witness ==
    \E c \in Calls :
        /\ Returned(call[c])
        /\ call[c].exErr = ErrExchange
        /\ call[c].ret.err = <<"cannot exchange code for token">> \o ErrExchange

\* C5: a call whose exchange and verification succeed but whose claims cannot
\* be decoded returns the decoding error wrapped with "cannot extract claims
\* from ID token" and a nil result, not the record it had populated.
C5_ClaimsFailure ==
    \A c \in Calls :
        LET k == call[c]
        IN  k.cErr # NoError
            => /\ Returned(k) /\ Exchanged(k) /\ k.ok /\ Verified(k)
               /\ k.params # <<>>
               /\ k.ret = [result |-> <<>>,
                           err |-> Wrap(k.cErr, "cannot extract claims from ID token")]

C5_Witness ==
    \E c \in Calls :
        /\ Returned(call[c])
        /\ call[c].cErr = ErrType
        /\ call[c].params # <<>>
        /\ call[c].params[1]["ClientID"] = call[c].cfg.ClientID
        /\ call[c].ret.result = <<>>

\* C6: the context handed to the token exchange and the context handed to
\* the verifier both carry the extractor's HTTP client.
C6_BothStepsUseClient ==
    \A c \in Calls :
        LET k == call[c]
        IN  /\ k.exchanges > 0 => k.exchCtx.client = oe.h
            /\ k.verifies > 0 => k.verCtx.client = oe.h

\* Positions of the members of a claim object with name n.
Named(claims, n) == {i \in DOMAIN claims : claims[i].name = n}
\* Positions of the string-valued members whose name is n up to letter case.
StringsNamedFold(claims, n) ==
    {i \in DOMAIN claims : Fold(claims[i].name) = Fold(n) /\ claims[i].value.kind = "string"}
\* Whether a name is a field's tag, exactly or up to letter case.
IsTag(n) == \E f \in Fields : Tag(f) = n
IsTagFold(n) == \E f \in Fields : Fold(Tag(f)) = Fold(n)
\* The members of a claim object whose names are tags, exactly or up to letter case.
Tagged(claims) == SelectSeq(claims, LAMBDA m : IsTag(m.name))
TaggedFold(claims) == SelectSeq(claims, LAMBDA m : IsTagFold(m.name))
\* The record Process populated before decoding the claims.
Populated(k) == NewParams(k.cfg, k.id, k.token, k.idt)

\* C7 as stated: on success Username is the value of the claim named email,
\* and empty when the token has no claim named email; claims whose names are
\* no field's tag change no field.
C7_UsernameIsEmailClaim ==
    \A c \in Calls :
        LET k == call[c]
            claims == k.idt.claims
            email == {i \in Named(claims, "email") : claims[i].value.kind = "string"}
        IN  Succeeded(k)
            => /\ Named(claims, "email") = {} => k.ret.result[1]["Username"] = ""
               /\ email # {}
                  => k.ret.result[1]["Username"] \in {claims[i].value.s : i \in email}
               /\ k.ret.result[1] = Unmarshal(Tagged(claims), Populated(k)).p

\* C7 amended: on success Username is the string value of the last member of
\* the claim object whose name is email up to letter case and whose value is
\* not null, and empty when there is none; a verified token whose claims
\* named like a tag (up to letter case) all hold strings or null is decoded
\* without error, with or without an email claim; claims whose names are no
\* field's tag even up to letter case change no field.
C7_UsernameIsLastEmailFold ==
    \A c \in Calls :
        LET k == call[c]
            claims == k.idt.claims
            email == StringsNamedFold(claims, "email")
        IN  /\ Succeeded(k)
               => /\ k.ret.result[1]["Username"] =
                        IF email = {} THEN "" ELSE claims[Max(email)].value.s
                  /\ k.ret.result[1] = Unmarshal(TaggedFold(claims), Populated(k)).p
            /\ (Returned(k) /\ Verified(k)
                /\ \A i \in DOMAIN claims :
                      IsTagFold(claims[i].name) => claims[i].value.kind # "other")
               => Succeeded(k)

C7_Witness ==
    \E c \in Calls :
        /\ Succeeded(call[c])
        /\ call[c].idt.claims = <<Member("EMAIL", Str("b")), Member("sub", Str("a"))>>
        /\ call[c].ret.result[1]["Username"] = "b"

\* The pair Process returns, as a function of the call's own arguments and of
\* the answers the provider and the verifier gave to it.
Outcome(k) ==
    IF k.exErr # NoError
    THEN [result |-> <<>>, err |-> Wrap(k.exErr, "cannot exchange code for token")]
    ELSE IF k.token.extra.kind # "string"
    THEN [result |-> <<>>, err |-> ErrMissingIDToken]
    ELSE IF k.vErr # NoError
    THEN [result |-> <<>>, err |-> Wrap(k.vErr, "cannot verify ID token")]
    ELSE LET r == Unmarshal(k.idt.claims,
                            [ZeroParams EXCEPT !["ClientID"] = k.cfg.ClientID,
                                               !["ClientSecret"] = k.cfg.ClientSecret,
                                               !["IDToken"] = k.token.extra.s,
                                               !["RefreshToken"] = k.token.refresh,
                                               !["IssuerURL"] = k.idt.issuer])
         IN  IF r.err # NoError
             THEN [result |-> <<>>, err |-> Wrap(r.err, "cannot extract claims from ID token")]
             ELSE [result |-> <<r.p>>, err |-> NoError]

\* The client NewOIDC leaves in the extractor for an option list without a
\* failing option: the last HTTPClient option's, else the default client.
LastClient(opts) ==
    LET H == {i \in DOMAIN opts : opts[i].kind = "HTTPClient"}
    IN  IF H = {} THEN DefaultClient ELSE opts[Max(H)].h

\* C8: under every interleaving of concurrent calls on one extractor, what a
\* call returns is determined by its own config, the provider's answer to it
\* and the verifier's answer to it; and the extractor's verifier and client
\* stay what NewOIDC left.
C8_CallsIndependent ==
    /\ \A c \in Calls : Returned(call[c]) => call[c].ret = Outcome(call[c])
    /\ Constructed => oe = [v |-> v, h |-> LastClient(oo)]

C8_Witness ==
    /\ \A c \in Calls : c <= 2 => Succeeded(call[c])
    /\ call[1].cfg # call[2].cfg
    /\ call[1].ret.result[1]["ClientID"] = "def"
    /\ call[2].ret.result[1]["ClientID"] = "abc"

\* Position of the first failing option of a list, 0 when there is none.
FirstFailing(opts) ==
    LET F == {i \in DOMAIN opts : opts[i].kind = "failing"}
    IN  IF F = {} THEN 0 ELSE Min(F)

\* C9: NewOIDC applies the options in order to an extractor holding the
\* verifier and the default client.  When none fails it returns the extractor
\* and a nil error, the last HTTPClient option deciding the client; at the
\* first failing option it returns nil and that option's error wrapped with
\* "cannot apply OIDC option", the options after it not applied.
C9_NewOIDC ==
    npc = "done"
    => LET f == FirstFailing(oo)
       IN  IF f = 0
           THEN /\ nret = [ext |-> <<"oe">>, err |-> NoError]
                /\ oe = [v |-> v, h |-> LastClient(oo)]
                /\ applied = oo
           ELSE /\ nret = [ext |-> <<>>, err |-> Wrap(ErrOption, "cannot apply OIDC option")]
                /\ applied = SubSeq(oo, 1, f)

C9_Witness ==
    /\ npc = "done"
    /\ Len(oo) = 2
    /\ oo[1] = OptFailing
    /\ applied = <<OptFailing>>
    /\ nret.ext = <<>>

\* A blocking step of call c is in flight under a cancelled caller's context.
Abandoned(c) == call[c].cancelled /\ call[c].pc \in {"exchange", "verify"}

====
